---- MODULE Spec2Model ----
(***************************************************************************)
(* A model of fiji_automator: the configuration store (config.py), the     *)
(* installer (setup.py), the automator (core.py) and the helpers they use  *)
(* (utils.py).  The program is single-threaded; every public operation is  *)
(* one action, and the operations of one component form one specification. *)
(***************************************************************************)
EXTENDS Integers, Sequences, FiniteSets, TLC

VARIABLES
    store,      \* Config.config: the nested mapping of the configuration store
    last,       \* the last store operation: its arguments and its outcome
    urlcall,    \* the last release-API query: the response and what was returned
    platform,   \* Config.platform: platform.system().lower()
    disk,       \* the install directory: its state, the Fiji.app tree, the plugin jars
    setup,      \* the last installer call: operation, steps, events, result
    present,    \* the executable paths that exist on disk
    automator,  \* the ThunderSTORMAutomator the program holds: its fiji_path
    ctor,       \* the last construction: its argument, the paths probed, the result
    out,        \* the output directory: whether it exists and the files in it
    run,        \* the last run_thunderstorm_analysis call: arguments, events, result
    util,       \* the last call of a function of utils.py: arguments and result
    global_config   \* the module global _config of config.py and who holds what it gave

vars == <<store, last, urlcall, platform, disk, setup, present, automator, ctor, out, run,
          util, global_config>>
configVars == <<store, last>>
installVars == <<disk, setup>>
autoVars == <<present, automator, ctor, out, run>>

(***************************************************************************)
(* Bounds of the model.                                                    *)
(***************************************************************************)
MaxSegs == 3        \* longest dotted key, in segments
MaxNodes == 4       \* largest store, in nodes below the root mapping
MaxAssets == 3      \* longest asset list of a release
MaxPresent == 2     \* most executable paths that exist on disk

(***************************************************************************)
(* The components at rest: what a specification of one component holds the *)
(* other components at.                                                    *)
(***************************************************************************)
NoneNone == [url |-> 0, name |-> <<>>]
NoUrlCall == [op |-> "init", api |-> [kind |-> "error", assets |-> <<>>], ret |-> NoneNone]
UrlIdle == urlcall = NoUrlCall

EmptyDisk == [dir |-> "writable", fiji |-> "absent", exe |-> FALSE, jars |-> {}]
NoSetupCall == [op |-> "init", steps |-> <<>>, events |-> <<>>, ret |-> "none",
                answer |-> "none", jar_answer |-> "none"]
InstallIdle ==
    /\ disk = EmptyDisk
    /\ setup = NoSetupCall

NoPath == "None"
NoMacro == <<>>
NoConstruction == [op |-> "init", fiji_path |-> NoPath, probed |-> <<>>, resolved |-> NoPath,
                   config_file |-> [kind |-> "none", doc |-> [t |-> "val", v |-> "None"]],
                   ret |-> "none"]
NoRun == [op |-> "init", input_path |-> <<>>, output_dir |-> <<>>, kwargs |-> <<>>,
          params |-> <<>>, events |-> <<>>, returncodes |-> <<>>, ret |-> "none"]
NoOutputDir == [exists |-> FALSE, macro |-> NoMacro, results |-> FALSE, reconstructed |-> FALSE]
NoUtilCall == [op |-> "init"]

\* Config._load_default_config, thunderstorm.default_parameters
DefaultParameters ==
    [pixel_size |-> "100.0", gain |-> "100.0", offset |-> "100.0",
     processing_method |-> "Wavelet filter (B-Spline)",
     localization_method |-> "PSF: Integrated Gaussian",
     sigma |-> "1.6", fitting_radius |-> "3", threshold_offset |-> "500",
     create_reconstructed_image |-> "True"]

\* _config after the first get_config(): made counts the Config objects
\* constructed so far, instance is the one _config refers to (0 for None)
\* and file the config_file it was constructed with, holders says which
\* instance each caller got, and default_parameters is the mapping that the
\* shared Config holds under thunderstorm.default_parameters.
OneConfig == [instance |-> 1, made |-> 1,
              file |-> [kind |-> "none", doc |-> [t |-> "val", v |-> "None"]],
              holders |-> {}, default_parameters |-> DefaultParameters]

\* _config = None: the module has been imported and get_config not yet called
NoConfig == [OneConfig EXCEPT !.instance = 0, !.made = 0]

AutoIdle ==
    /\ present = {}
    /\ automator = NoPath
    /\ ctor = NoConstruction
    /\ out = NoOutputDir
    /\ run = NoRun

(***************************************************************************)
(* Values of the store.  A value is a mapping (a Python dict) or a         *)
(* non-mapping.  Every non-mapping (number, string, list, None) takes the  *)
(* same branch of isinstance(value, dict) in get and merge_dict, and makes *)
(* set raise TypeError, so one tag stands for all of them.                 *)
(***************************************************************************)
Segs == {"analysis", "timeout"}
Scalars == {"300", "test_value"}
None == [t |-> "val", v |-> "None"]

Val(x) == [t |-> "val", v |-> x]
Map(f) == [t |-> "map", m |-> f]
EmptyMap == Map(<<>>)
IsMap(x) == x.t = "map"

RECURSIVE Trees(_)
Trees(d) ==
    IF d = 0 THEN {Val(x) : x \in Scalars}
    ELSE LET sub == Trees(d - 1)
         IN  sub \cup {Map(f) : f \in UNION {[D -> sub] : D \in SUBSET Segs}}

RECURSIVE Size(_)
RECURSIVE SizeOver(_, _)
SizeOver(x, D) ==
    IF D = {} THEN 0
    ELSE LET k == CHOOSE k \in D : TRUE
         IN  Size(x.m[k]) + SizeOver(x, D \ {k})
Size(x) == IF IsMap(x) THEN 1 + SizeOver(x, DOMAIN x.m) ELSE 1
Nodes(x) == Size(x) - 1

DottedKeys == UNION {[1..n -> Segs] : n \in 1..MaxSegs}

(***************************************************************************)
(* Config._load_default_config, restricted to the segments of the model:   *)
(* analysis.timeout is a scalar leaf below a mapping.                      *)
(***************************************************************************)
DefaultConfig == Map([k \in {"analysis"} |-> Map([j \in {"timeout"} |-> Val("300")])])

(***************************************************************************)
(* Config.get: walk the segments; the default at the first segment that is *)
(* missing or that is looked up in a non-mapping.                          *)
(***************************************************************************)
RECURSIVE GetWalk(_, _, _)
GetWalk(value, keys, default) ==
    IF keys = <<>> THEN value
    ELSE IF IsMap(value) /\ Head(keys) \in DOMAIN value.m
         THEN GetWalk(value.m[Head(keys)], Tail(keys), default)
         ELSE default

\* A get that falls back to None instead of the default it was given.
ConfigGetValueNone(config, key, default) == GetWalk(config, key, None)

ConfigGetValue(config, key, default) == GetWalk(config, key, default)

(***************************************************************************)
(* Config.set: walk keys[:-1], creating an empty mapping for a missing     *)
(* segment, then assign the last segment.  The walk mutates in place, so   *)
(* the result carries the store as it is when the call ends, also when it  *)
(* ends by raising: `k not in config` and `config[k] = value` raise        *)
(* TypeError on a non-mapping.                                             *)
(***************************************************************************)
\* A set that only updates: it creates the missing mappings on its way and
\* raises KeyError when the last segment is not there yet.
RECURSIVE SetWalkUpdateOnly(_, _, _)
SetWalkUpdateOnly(config, keys, value) ==
    IF ~IsMap(config) THEN [tree |-> config, raised |-> TRUE]
    ELSE IF Len(keys) = 1
         THEN IF keys[1] \notin DOMAIN config.m THEN [tree |-> config, raised |-> TRUE]
              ELSE [tree |-> Map([k \in DOMAIN config.m |->
                                    IF k = keys[1] THEN value ELSE config.m[k]]),
                    raised |-> FALSE]
         ELSE LET k == Head(keys)
                  child == IF k \in DOMAIN config.m THEN config.m[k] ELSE EmptyMap
                  sub == SetWalkUpdateOnly(child, Tail(keys), value)
              IN  [tree |-> Map([j \in DOMAIN config.m \cup {k} |->
                                   IF j = k THEN sub.tree ELSE config.m[j]]),
                   raised |-> sub.raised]

RECURSIVE SetWalk(_, _, _)
SetWalk(config, keys, value) ==
    IF ~IsMap(config) THEN [tree |-> config, raised |-> TRUE]
    ELSE IF Len(keys) = 1
         THEN [tree |-> Map([k \in DOMAIN config.m \cup {keys[1]} |->
                               IF k = keys[1] THEN value ELSE config.m[k]]),
               raised |-> FALSE]
         ELSE LET k == Head(keys)
                  child == IF k \in DOMAIN config.m THEN config.m[k] ELSE EmptyMap
                  sub == SetWalk(child, Tail(keys), value)
              IN  [tree |-> Map([j \in DOMAIN config.m \cup {k} |->
                                   IF j = k THEN sub.tree ELSE config.m[j]]),
                   raised |-> sub.raised]

(***************************************************************************)
(* Config._merge_config.merge_dict: for every key of the update, recurse   *)
(* when both sides hold a mapping, otherwise store the update's value.     *)
(***************************************************************************)
\* A merge that stores a fresh empty mapping, as set does for a missing segment,
\* where the update brings a mapping the base has no mapping for.
RECURSIVE merge_dict_creates_empty(_, _)
merge_dict_creates_empty(base, update) ==
    Map([k \in DOMAIN base.m \cup DOMAIN update.m |->
           IF k \in DOMAIN update.m
           THEN IF k \in DOMAIN base.m /\ IsMap(base.m[k]) /\ IsMap(update.m[k])
                THEN merge_dict_creates_empty(base.m[k], update.m[k])
                ELSE IF IsMap(update.m[k]) THEN EmptyMap ELSE update.m[k]
           ELSE base.m[k]])

RECURSIVE merge_dict(_, _)
merge_dict(base, update) ==
    Map([k \in DOMAIN base.m \cup DOMAIN update.m |->
           IF k \in DOMAIN update.m
           THEN IF k \in DOMAIN base.m /\ IsMap(base.m[k]) /\ IsMap(update.m[k])
                THEN merge_dict(base.m[k], update.m[k])
                ELSE update.m[k]
           ELSE base.m[k]])

MergeConfig(config, custom_config) == merge_dict(config, custom_config)

(***************************************************************************)
(* The operations of the store.                                            *)
(***************************************************************************)
SetValues == {Val("test_value"), Map([k \in {"timeout"} |-> Val("300")])}
Defaults == {None, Val("default")}
Overrides == {t \in Trees(2) : IsMap(t) /\ Nodes(t) <= 3}

\* The config_file argument of a construction: none; the path of no file; a
\* file that exists and cannot be read; a file that is not JSON; a file with a
\* JSON document, which is an object (a mapping) or not (a list, a string, a
\* number, null).
NoFile == [kind |-> "none", doc |-> None]
ConfigFiles ==
    {NoFile}
        \cup {[kind |-> kind, doc |-> None] : kind \in {"missing", "unreadable", "invalid_json", "inaccessible"}}
        \cup {[kind |-> "document", doc |-> doc] : doc \in Overrides \cup {Val("test_value"), None}}

\* A load that empties the store when it starts and so leaves it empty when it fails.
load_config_file_clears_first(config, file) ==
    IF file.kind = "document" /\ IsMap(file.doc)
    THEN MergeConfig(config, file.doc)
    ELSE EmptyMap

\* Config._load_config_file: open and json.load raise before anything is
\* merged, and _merge_config of a document that is no object raises at
\* update.items(), before the first assignment; the except clause catches all.
load_config_file(config, file) ==
    IF file.kind = "document" /\ IsMap(file.doc)
    THEN MergeConfig(config, file.doc)
    ELSE config

\* Config.__init__: the store it leaves.  The file is loaded only when the
\* argument is given and Path(config_file).exists().  For an "inaccessible"
\* file (a name that is too long, a directory that may not be searched)
\* exists() raises OSError and no Config comes into being.
Config(file) ==
    IF file.kind \in {"none", "missing"} THEN DefaultConfig
    ELSE load_config_file(DefaultConfig, file)

\* A get_config that constructs a Config on every call.
get_config_constructs_anew(g, config, file) ==
    IF file.kind = "inaccessible" THEN [global |-> g, config |-> config, raised |-> TRUE]
    ELSE [global |-> [g EXCEPT !.made = @ + 1, !.instance = g.made + 1, !.file = file],
          config |-> Config(file), raised |-> FALSE]

\* get_config: _config, the store of the Config it refers to, and whether the
\* call raised.  Config is constructed only while _config is None; a
\* constructor that raises leaves _config as None.
get_config(g, config, file) ==
    IF g.instance # 0 THEN [global |-> g, config |-> config, raised |-> FALSE]
    ELSE IF file.kind = "inaccessible" THEN [global |-> g, config |-> config, raised |-> TRUE]
    ELSE [global |-> [g EXCEPT !.made = @ + 1, !.instance = g.made + 1, !.file = file],
          config |-> Config(file), raised |-> FALSE]

\* What a holder of the shared Config refers to after its call
Holds(g, holder) == {h \in g.holders : h[1] # holder} \cup {<<holder, g.instance>>}

NoOp == [op |-> "init", key |-> <<>>, arg |-> None, ret |-> None, raised |-> FALSE,
         file |-> NoFile]

ConfigSet(key, value) ==
    LET r == SetWalk(store, key, value)
    IN  /\ Nodes(r.tree) <= MaxNodes
        /\ store' = r.tree
        /\ last' = [op |-> "set", key |-> key, arg |-> value, ret |-> None,
                    raised |-> r.raised, file |-> NoFile]
        /\ UNCHANGED <<urlcall, platform, installVars, autoVars, util, global_config>>

ConfigGet(key, default) ==
    /\ store' = store
    /\ last' = [op |-> "get", key |-> key, arg |-> default,
                ret |-> ConfigGetValue(store, key, default), raised |-> FALSE,
                file |-> NoFile]
    /\ UNCHANGED <<urlcall, platform, installVars, autoVars, util, global_config>>

ConfigMerge(custom_config) ==
    LET r == MergeConfig(store, custom_config)
    IN  /\ Nodes(r) <= MaxNodes
        /\ store' = r
        /\ last' = [op |-> "merge", key |-> <<>>, arg |-> custom_config, ret |-> None,
                    raised |-> FALSE, file |-> NoFile]
        /\ UNCHANGED <<urlcall, platform, installVars, autoVars, util, global_config>>

\* Config(config_file): the program goes on with the Config it constructed
ConfigConstruct(file) ==
    LET r == Config(file)
    IN  /\ Nodes(r) <= MaxNodes
        /\ store' = IF file.kind = "inaccessible" THEN store ELSE r
        /\ last' = [op |-> "construct", key |-> <<>>, arg |-> None, ret |-> None,
                    raised |-> file.kind = "inaccessible", file |-> file]
        /\ UNCHANGED <<urlcall, platform, installVars, autoVars, util, global_config>>

ConfigIdle ==
    /\ store = DefaultConfig
    /\ last = NoOp

InitConfig ==
    /\ ConfigIdle
    /\ UrlIdle
    /\ platform = "linux"
    /\ InstallIdle
    /\ AutoIdle
    /\ util = NoUtilCall
    /\ global_config = OneConfig

NextConfig ==
    \/ \E key \in DottedKeys, value \in SetValues : ConfigSet(key, value)
    \/ \E key \in DottedKeys, default \in Defaults : ConfigGet(key, default)
    \/ \E custom_config \in Overrides : ConfigMerge(custom_config)
    \/ \E file \in ConfigFiles : ConfigConstruct(file)

SpecConfig == InitConfig /\ [][NextConfig]_vars

(***************************************************************************)
(* The key paths of a value and what each holds, read off the value bottom *)
(* up: the pairs <<path, held value>> of every non-empty path that leads   *)
(* through mappings only.                                                  *)
(***************************************************************************)
RECURSIVE PathVals(_)
PathVals(x) ==
    IF IsMap(x)
    THEN UNION {{<<(<<k>>), x.m[k]>>} \cup {<<(<<k>>) \o pv[1], pv[2]>> : pv \in PathVals(x.m[k])}
                : k \in DOMAIN x.m}
    ELSE {}

Resolves(x, key) == \E pv \in PathVals(x) : pv[1] = key
NonMappingPrefix(x, key) ==
    \E pv \in PathVals(x) :
        /\ ~IsMap(pv[2])
        /\ Len(pv[1]) < Len(key)
        /\ pv[1] = SubSeq(key, 1, Len(pv[1]))

\* C7: after set(k, v), get(k) returns v, for every dotted key and every store,
\* also when a prefix of k holds a non-mapping value.
C7_SetThenGet ==
    last.op = "set" => ConfigGetValue(store, last.key, None) = last.arg

\* C8: get(k, default) returns exactly the default when k does not resolve (a
\* segment is missing or a non-mapping is reached before the path ends) and the
\* stored value when it does; a get leaves the store unchanged.
C8_GetDefaultOrStored ==
    /\ [](last.op = "get" =>
            /\ \A pv \in PathVals(store) : pv[1] = last.key => last.ret = pv[2]
            /\ ~Resolves(store, last.key) => last.ret = last.arg)
    /\ [][last'.op = "get" => store' = store]_vars

C8_Witness ==
    /\ last.op = "get"
    /\ Len(last.key) = 3
    /\ NonMappingPrefix(store, last.key)
    /\ last.arg = Val("default")
    /\ last.ret = Val("default")

\* C9: a merge removes no key: every dotted key path that resolves before
\* _merge_config resolves after it.
C9_MergeKeepsEveryPath ==
    [][last'.op = "merge" =>
         \A pv \in PathVals(store) : Resolves(store', pv[1])]_vars

\* C10: merge is idempotent: merging the override that was just merged once
\* more leaves the store as it is.
C10_MergeIdempotent ==
    last.op = "merge" => MergeConfig(store, last.arg) = store

C10_Witness ==
    /\ last.op = "merge"
    /\ store # last.arg
    /\ \E k \in DOMAIN last.arg.m :
          /\ IsMap(last.arg.m[k])
          /\ DOMAIN last.arg.m[k].m # {}
          /\ store.m[k] # last.arg.m[k]
    /\ \E k \in DOMAIN last.arg.m : ~IsMap(last.arg.m[k])

\* A file whose load fails
LoadFails(file) ==
    \/ file.kind \in {"unreadable", "invalid_json"}
    \/ file.kind = "document" /\ ~IsMap(file.doc)

\* C11: a Config constructed with a file that exists and whose load fails (it
\* cannot be read, it is not JSON, or its document is not an object) is
\* constructed without an exception and its store is the built-in defaults.
C11_FailedLoadKeepsDefaults ==
    (last.op = "construct" /\ LoadFails(last.file)) =>
        (store = DefaultConfig /\ ~last.raised)

C11_Witness ==
    /\ last.op = "construct"
    /\ last.file = [kind |-> "document", doc |-> Val("test_value")]
    /\ store = DefaultConfig

(***************************************************************************)
(* Release assets.  An asset name is a sequence of pieces of text that     *)
(* str.endswith, str.lower and the substring test treat as wholes: no      *)
(* piece but ".jar" ends in ".jar", and "thunderstorm" occurs in a lowered *)
(* name exactly where "thunder" is followed by "storm".                    *)
(***************************************************************************)
AssetNames == {
    <<"thunder", "storm", ".jar">>,             \* thunderstorm.jar
    <<"Thunder", "STORM", ".jar">>,             \* ThunderSTORM.jar
    <<"thunder", "storm", ".JAR">>,             \* thunderstorm.JAR
    <<"thunder", "storm", ".jar", ".zip">>,     \* thunderstorm.jar.zip
    <<"thunder", "_", "storm", ".jar">>,        \* thunder_storm.jar
    <<"imagej", ".jar">> }                      \* imagej.jar

\* str.lower, piece by piece
LowerPiece(s) ==
    CASE s = "Thunder" -> "thunder"
      [] s = "STORM" -> "storm"
      [] s = ".JAR" -> ".jar"
      [] s = ".TIF" -> ".tif"
      [] s = ".ZIP" -> ".zip"
      [] OTHER -> s
Lower(name) == [i \in 1..Len(name) |-> LowerPiece(name[i])]

\* name.endswith(".jar"): the comparison is on the name as it is
EndsWithJar(name) == Len(name) > 0 /\ name[Len(name)] = ".jar"

\* "thunderstorm" in name.lower()
ContainsThunderstorm(name) ==
    \E i \in 1..(Len(name) - 1) : Lower(name)[i] = "thunder" /\ Lower(name)[i + 1] = "storm"

AssetFilter(name) == EndsWithJar(name) /\ ContainsThunderstorm(name)

(***************************************************************************)
(* An asset is {name, browser_download_url}, or an entry without a "name"  *)
(* (asset["name"] raises KeyError).  The i-th asset of a release has the   *)
(* download URL i.                                                         *)
(***************************************************************************)
Malformed == [wellformed |-> FALSE, name |-> <<>>, browser_download_url |-> 0]
Asset(name, url) == [wellformed |-> TRUE, name |-> name, browser_download_url |-> url]
AssetKinds == {[wellformed |-> TRUE, name |-> n] : n \in AssetNames}
                \cup {[wellformed |-> FALSE, name |-> <<>>]}
AssetLists ==
    UNION {{[i \in 1..n |-> [wellformed |-> ks[i].wellformed, name |-> ks[i].name,
                             browser_download_url |-> i]] : ks \in [1..n -> AssetKinds]}
           : n \in 0..MaxAssets}

\* urlopen or json.loads raises, or the document is no object: "error";
\* an object without "assets": "no_assets" (data.get gives []).
ApiResponses ==
    {[kind |-> "error", assets |-> <<>>], [kind |-> "no_assets", assets |-> <<>>]}
        \cup {[kind |-> "ok", assets |-> as] : as \in AssetLists}

\* A loop that keeps the last asset that passes the filter instead of the first.
RECURSIVE AssetLoopLast(_, _)
AssetLoopLast(assets, i) ==
    IF i > Len(assets) THEN [out |-> "none", ret |-> NoneNone]
    ELSE IF ~assets[i].wellformed THEN [out |-> "KeyError", ret |-> NoneNone]
    ELSE LET rest == AssetLoopLast(assets, i + 1)
         IN  IF rest.out = "found" \/ ~AssetFilter(assets[i].name) THEN rest
             ELSE [out |-> "found",
                   ret |-> [url |-> assets[i].browser_download_url, name |-> assets[i].name]]

\* The loop of lines 134-136 on the assets from index i on: the first asset that
\* passes the filter, "KeyError" at an entry without a name, "none" at the end.
RECURSIVE AssetLoop(_, _)
AssetLoop(assets, i) ==
    IF i > Len(assets) THEN [out |-> "none", ret |-> NoneNone]
    ELSE IF ~assets[i].wellformed THEN [out |-> "KeyError", ret |-> NoneNone]
    ELSE IF AssetFilter(assets[i].name)
         THEN [out |-> "found",
               ret |-> [url |-> assets[i].browser_download_url, name |-> assets[i].name]]
         ELSE AssetLoop(assets, i + 1)

FindAsset(assets) == AssetLoop(assets, 1)

\* FijiSetup.get_thunderstorm_download_url: every exception below the try is
\* caught and turned into (None, None).
get_thunderstorm_download_url(api) ==
    IF api.kind = "error" THEN NoneNone
    ELSE FindAsset(api.assets).ret

GetThunderstormDownloadUrl(api) ==
    /\ urlcall' = [op |-> "get_url", api |-> api, ret |-> get_thunderstorm_download_url(api)]
    /\ UNCHANGED <<configVars, platform, installVars, autoVars, util, global_config>>

InitUrl ==
    /\ ConfigIdle
    /\ UrlIdle
    /\ platform = "linux"
    /\ InstallIdle
    /\ AutoIdle
    /\ util = NoUtilCall
    /\ global_config = OneConfig

NextUrl == \E api \in ApiResponses : GetThunderstormDownloadUrl(api)

SpecUrl == InitUrl /\ [][NextUrl]_vars

\* The names of AssetNames that end in ".jar" and contain "thunderstorm" in any
\* case, listed by hand.
PluginJarNames == {<<"thunder", "storm", ".jar">>, <<"Thunder", "STORM", ".jar">>}

FirstPluginJar(assets, i) ==
    /\ i \in 1..Len(assets)
    /\ assets[i].wellformed
    /\ assets[i].name \in PluginJarNames
    /\ \A j \in 1..(i - 1) : assets[j].wellformed /\ assets[j].name \notin PluginJarNames

\* C6: get_thunderstorm_download_url returns the URL and name of the first asset,
\* in list order, whose name ends in ".jar" and contains "thunderstorm" in any
\* case; it returns (None, None) when no asset matches, when the request or the
\* decoding fails (an entry without a name before the first match included), and
\* it always returns.
C6_FirstMatchingAsset ==
    urlcall.op = "get_url" =>
        LET assets == urlcall.api.assets
        IN  /\ \A i \in 1..Len(assets) :
                 FirstPluginJar(assets, i) =>
                     urlcall.ret = [url |-> assets[i].browser_download_url,
                                    name |-> assets[i].name]
            /\ (~\E i \in 1..Len(assets) : FirstPluginJar(assets, i)) =>
                     urlcall.ret = NoneNone
            /\ urlcall.api.kind # "ok" => urlcall.ret = NoneNone

C6_Witness ==
    /\ urlcall.op = "get_url"
    /\ Len(urlcall.api.assets) = 3
    /\ urlcall.api.assets[1].name = <<"thunder", "storm", ".JAR">>
    /\ urlcall.api.assets[2].name = <<"Thunder", "STORM", ".jar">>
    /\ urlcall.api.assets[3].name = <<"thunder", "storm", ".jar">>
    /\ urlcall.ret = [url |-> 2, name |-> <<"Thunder", "STORM", ".jar">>]

(***************************************************************************)
(* The installer.  disk is what FijiSetup sees of the file system:         *)
(*   dir   the install directory: "missing", "readonly" or "writable";     *)
(*   fiji  the Fiji.app tree: "absent", "bare" (directories only), "old"   *)
(*         (there before the installer ran), "new" (extracted by it),      *)
(*         "partial" (left by an extraction or a removal that failed);     *)
(*   exe   whether the platform's executable is in the tree;              *)
(*   jars  the names of the files in Fiji.app/plugins.                     *)
(* An operation is the set of its possible outcomes: the disk it leaves,   *)
(* what it returns ("true", "false", or "raise" for an exception that      *)
(* leaves it), the events it caused in order, and the answer read at the   *)
(* reinstall prompt.                                                       *)
(***************************************************************************)
Platforms == {"windows", "darwin", "linux", "freebsd"}

\* Config.get_fiji_urls: the platforms fiji.urls has a key for
FijiUrlPlatforms == {"windows", "darwin", "linux"}

Outcome(d, ret, events, answer) ==
    [disk |-> d, ret |-> ret, events |-> events, answer |-> answer]

\* input(): a line, or EOFError ("EOF") when standard input is closed
Answers == {"y", "Y", "n", "yes", "EOF"}

\* str.lower on an answer
LowerAnswer(answer) == IF answer = "Y" THEN "y" ELSE answer

\* A prompt that takes everything but "n" for a yes.
ConfirmedUnlessNo(answer) == LowerAnswer(answer) # "n"

\* response == 'y' (the else branch of `if response != 'y'`)
Confirmed(answer) == LowerAnswer(answer) = "y"

\* A permission check that takes a directory it could create for writable.
check_permissions_or_creatable(d) ==
    IF d.dir # "readonly"
    THEN {Outcome(d, "true", <<>>, "none")}
    ELSE {Outcome(d, "false", <<>>, "none")}

\* FileUtils.check_permissions: touch and unlink of a probe file
check_permissions(d) ==
    IF d.dir = "writable"
    THEN {Outcome(d, "true", <<>>, "none")}
    ELSE {Outcome(d, "false", <<>>, "none")}

\* FileUtils.ensure_directory(install_dir): mkdir(parents=True, exist_ok=True)
ensure_install_dir(d) ==
    IF d.dir = "missing"
    THEN {Outcome([d EXCEPT !.dir = "writable"], "true", <<"mkdir">>, "none")}
    ELSE {Outcome(d, "true", <<>>, "none")}

\* FileUtils.extract_archive into the install directory, and the check of
\* lines 96-106 that follows it.  The archive may hold a complete Fiji.app, one
\* without this platform's executable, or no Fiji.app at all; the extraction
\* may fail before it wrote anything or after it wrote a part.
ExtractResults(d) ==
    IF d.dir = "readonly" THEN {"denied"}
    ELSE {"ok", "no_exe", "no_dir", "bad_zip", "partial"}

Extracted(d, ex, events, answer) ==
    LET made == [d EXCEPT !.dir = "writable"]
    IN  CASE ex = "ok" ->
               Outcome([made EXCEPT !.fiji = "new", !.exe = TRUE], "true", events, answer)
          [] ex = "no_exe" ->
               Outcome([made EXCEPT !.fiji = "new", !.exe = FALSE], "true", events, answer)
          [] ex = "no_dir" -> Outcome(made, "false", events, answer)
          [] ex = "partial" ->
               Outcome([made EXCEPT !.fiji = "partial", !.exe = FALSE], "false", events, answer)
          [] OTHER -> Outcome(d, "false", events, answer)

\* download_fiji from line 73 on: URL lookup, download, extraction
DownloadAndExtract(d, plat, events, answer) ==
    IF plat \notin FijiUrlPlatforms THEN {Outcome(d, "false", events, answer)}
    ELSE {Outcome(d, "false", events \o <<"download">>, answer)}
         \cup {Extracted(d, ex, events \o <<"download", "extract">>, answer)
               : ex \in ExtractResults(d)}

\* A reinstallation that puts the old tree back when the download or the
\* extraction fails.
RmtreeOutcomesRestores(d, plat, events, answer) ==
    {IF o.ret = "false" THEN Outcome(d, "false", o.events, answer) ELSE o
     : o \in DownloadAndExtract([d EXCEPT !.fiji = "absent", !.exe = FALSE, !.jars = {}],
                                plat, events, answer)}

\* shutil.rmtree(fiji_dir): removes the tree, or raises having removed a part
\* of it or nothing
Removed(d) == [d EXCEPT !.fiji = "absent", !.exe = FALSE, !.jars = {}]
RmtreeOutcomes(d, plat, events, answer) ==
    {Outcome(d, "raise", events, answer),
     Outcome([d EXCEPT !.fiji = "partial", !.exe = FALSE, !.jars = {}], "raise", events, answer)}
        \cup (IF d.dir = "readonly" THEN {}
              ELSE DownloadAndExtract(Removed(d), plat, events, answer))

\* FijiSetup.download_fiji
download_fiji(d, plat) ==
    IF d.fiji # "absent"
    THEN UNION {IF answer = "EOF" THEN {Outcome(d, "raise", <<"prompt">>, answer)}
                ELSE IF ~Confirmed(answer) THEN {Outcome(d, "true", <<"prompt">>, answer)}
                ELSE RmtreeOutcomes(d, plat, <<"prompt", "rmtree">>, answer)
                : answer \in Answers}
    ELSE DownloadAndExtract(d, plat, <<>>, "none")

\* directory.glob("*thunderstorm*.jar"): pathlib matches the pattern as written,
\* except on Windows, where it folds the case of pattern and name
GlobMatches(name, plat) ==
    LET n == IF plat = "windows" THEN Lower(name) ELSE name
    IN  /\ Len(n) > 0
        /\ n[Len(n)] = ".jar"
        /\ \E i \in 1..(Len(n) - 1) : n[i] = "thunder" /\ n[i + 1] = "storm"

\* FileUtils.find_files(plugins_dir, "*thunderstorm*.jar")
find_plugin_jars(d, plat) == {j \in d.jars : GlobMatches(j, plat)}

\* FileUtils.download_file(download_url, plugins_dir / jar_name): urlretrieve
\* writes the destination as it reads, so a failed download may leave the file
DownloadJar(d, name, events, answer) ==
    LET ev == events \o <<"download_jar">>
        written == [d EXCEPT !.jars = d.jars \cup {name}]
    IN  {Outcome(written, "true", ev, answer),
         Outcome(written, "false", ev, answer),
         Outcome(d, "false", ev, answer)}

\* An installation that looks for installed jars before it looks at what the
\* release API gave.
InstallWithUrlJarsFirst(d, plat, found, events) ==
    LET existing_jars == find_plugin_jars(d, plat)
        got == IF found.url = 0 THEN <<"no_url">> ELSE <<"url">>
    IN  IF existing_jars # {}
        THEN UNION {IF answer = "EOF"
                    THEN {Outcome(d, "raise", events \o <<"prompt_jar">>, answer)}
                    ELSE IF ~Confirmed(answer)
                    THEN {Outcome(d, "true", events \o <<"prompt_jar">>, answer)}
                    ELSE IF found.url = 0
                    THEN {Outcome(d, "false", events \o <<"prompt_jar">> \o got, answer)}
                    ELSE DownloadJar([d EXCEPT !.jars = d.jars \ existing_jars],
                                     found.name,
                                     events \o <<"prompt_jar">> \o got \o <<"remove_jars">>,
                                     answer)
                    : answer \in Answers}
        ELSE IF found.url = 0 THEN {Outcome(d, "false", events \o got, "none")}
        ELSE DownloadJar(d, found.name, events \o got, "none")

\* install_thunderstorm from line 159 on, with what get_thunderstorm_download_url
\* gave: "no_url" for (None, None), "url" for a download URL
InstallWithUrl(d, plat, found, events) ==
    IF found.url = 0 THEN {Outcome(d, "false", events \o <<"no_url">>, "none")}
    ELSE LET existing_jars == find_plugin_jars(d, plat)
             ev == events \o <<"url">>
         IN  IF existing_jars # {}
             THEN UNION {IF answer = "EOF"
                         THEN {Outcome(d, "raise", ev \o <<"prompt_jar">>, answer)}
                         ELSE IF ~Confirmed(answer)
                         THEN {Outcome(d, "true", ev \o <<"prompt_jar">>, answer)}
                         ELSE DownloadJar([d EXCEPT !.jars = d.jars \ existing_jars],
                                          found.name,
                                          ev \o <<"prompt_jar", "remove_jars">>, answer)
                         : answer \in Answers}
             ELSE DownloadJar(d, found.name, ev, "none")

\* The release-API responses the installer is run against
InstallApiResponses ==
    {[kind |-> "error", assets |-> <<>>],
     [kind |-> "ok", assets |-> <<>>],
     [kind |-> "ok", assets |-> <<Asset(<<"thunder", "storm", ".jar">>, 1)>>],
     [kind |-> "ok", assets |-> <<Asset(<<"imagej", ".jar">>, 1),
                                  Asset(<<"Thunder", "STORM", ".jar">>, 2)>>]}

\* FijiSetup.install_thunderstorm; ensure_directory(plugins_dir) creates the
\* plugins directory with its parents and raises where it may not
install_thunderstorm(d, plat) ==
    IF d.fiji = "absent" /\ d.dir = "readonly"
    THEN {Outcome(d, "raise", <<>>, "none")}
    ELSE LET made == IF d.fiji = "absent"
                     THEN [d EXCEPT !.dir = "writable", !.fiji = "bare"]
                     ELSE d
             events == IF d.fiji = "absent" THEN <<"mkdir", "api">> ELSE <<"api">>
         IN  UNION {InstallWithUrl(made, plat, get_thunderstorm_download_url(api), events)
                    : api \in InstallApiResponses}

\* FijiSetup.get_fiji_executable: a path for the three platforms, None otherwise
ExecutablePlatforms == {"windows", "darwin", "linux"}

\* the return codes of the test run: the process's own, or -1 from run_command
ReturnCodes == {0, 1, -1}

\* The event of a test run that ended with the return code
ReturnCodeEvent(returncode) ==
    CASE returncode = 0 -> "returncode 0"
      [] returncode = 1 -> "returncode 1"
      [] OTHER -> "returncode -1"

\* FijiSetup.test_fiji_execution
test_fiji_execution(d, plat) ==
    IF plat \notin ExecutablePlatforms \/ ~d.exe
    THEN {Outcome(d, "false", <<>>, "none")}
    ELSE {Outcome(d, IF returncode = 0 THEN "true" ELSE "false",
                  <<"launch", ReturnCodeEvent(returncode)>>, "none")
          : returncode \in ReturnCodes}

\* A verification that does not look for the plugin.
verify_installation_without_plugin(d, plat) ==
    IF d.fiji = "absent" THEN {Outcome(d, "false", <<>>, "none")}
    ELSE IF plat \notin ExecutablePlatforms \/ ~d.exe THEN {Outcome(d, "false", <<>>, "none")}
    ELSE test_fiji_execution(d, plat)

\* FijiSetup.verify_installation
verify_installation(d, plat) ==
    IF d.fiji = "absent" THEN {Outcome(d, "false", <<>>, "none")}
    ELSE IF plat \notin ExecutablePlatforms \/ ~d.exe THEN {Outcome(d, "false", <<>>, "none")}
    ELSE IF find_plugin_jars(d, plat) = {} THEN {Outcome(d, "false", <<>>, "none")}
    ELSE test_fiji_execution(d, plat)

(***************************************************************************)
(* FijiSetup.setup_all, stage by stage from the last: each stage runs one  *)
(* step, appends it with its outcome to the steps so far, and goes on to   *)
(* the next stage only when the step returned true.                        *)
(***************************************************************************)
Result(d, ret, steps, events, answer, jar_answer) ==
    [disk |-> d, ret |-> ret, steps |-> steps, events |-> events,
     answer |-> answer, jar_answer |-> jar_answer]

VerifyStage(d, plat, steps, events, answer, jar_answer) ==
    {Result(v.disk, v.ret, steps \o <<(<<"verify_installation", v.ret>>)>>,
            events \o v.events, answer, jar_answer)
     : v \in verify_installation(d, plat)}

\* A stage that goes on to the verification whatever install_thunderstorm returned.
InstallStageUnchecked(d, plat, steps, events, answer) ==
    UNION {LET s == steps \o <<(<<"install_thunderstorm", t.ret>>)>>
               e == events \o t.events
           IN  IF t.ret # "raise"
               THEN VerifyStage(t.disk, plat, s, e, answer, t.answer)
               ELSE {Result(t.disk, t.ret, s, e, answer, t.answer)}
           : t \in install_thunderstorm(d, plat)}

InstallStage(d, plat, steps, events, answer) ==
    UNION {LET s == steps \o <<(<<"install_thunderstorm", t.ret>>)>>
               e == events \o t.events
           IN  IF t.ret = "true"
               THEN VerifyStage(t.disk, plat, s, e, answer, t.answer)
               ELSE {Result(t.disk, t.ret, s, e, answer, t.answer)}
           : t \in install_thunderstorm(d, plat)}

DownloadStage(d, plat, steps, events) ==
    UNION {LET s == steps \o <<(<<"download_fiji", f.ret>>)>>
               e == events \o f.events
           IN  IF f.ret = "true"
               THEN InstallStage(f.disk, plat, s, e, f.answer)
               ELSE {Result(f.disk, f.ret, s, e, f.answer, "none")}
           : f \in download_fiji(d, plat)}

setup_all(d, plat) ==
    UNION {IF p.ret = "true"
           THEN UNION {DownloadStage(m.disk, plat,
                                     <<(<<"check_permissions", p.ret>>),
                                       (<<"ensure_directory", m.ret>>)>>,
                                     p.events \o m.events)
                       : m \in ensure_install_dir(p.disk)}
           ELSE {Result(p.disk, "false", <<(<<"check_permissions", p.ret>>)>>, p.events,
                        "none", "none")}
           : p \in check_permissions(d)}

(***************************************************************************)
(* The installer's operations.                                             *)
(***************************************************************************)
SetupAll ==
    \E r \in setup_all(disk, platform) :
        /\ disk' = r.disk
        /\ setup' = [op |-> "setup_all", steps |-> r.steps, events |-> r.events,
                     ret |-> r.ret, answer |-> r.answer, jar_answer |-> r.jar_answer]
        /\ UNCHANGED <<platform, configVars, urlcall, autoVars, util, global_config>>

DownloadFiji ==
    \E r \in download_fiji(disk, platform) :
        /\ disk' = r.disk
        /\ setup' = [op |-> "download_fiji", steps |-> <<>>, events |-> r.events,
                     ret |-> r.ret, answer |-> r.answer, jar_answer |-> "none"]
        /\ UNCHANGED <<platform, configVars, urlcall, autoVars, util, global_config>>

InstallThunderstorm ==
    \E r \in install_thunderstorm(disk, platform) :
        /\ disk' = r.disk
        /\ setup' = [op |-> "install_thunderstorm", steps |-> <<>>, events |-> r.events,
                     ret |-> r.ret, answer |-> "none", jar_answer |-> r.answer]
        /\ UNCHANGED <<platform, configVars, urlcall, autoVars, util, global_config>>

VerifyInstallation ==
    \E r \in verify_installation(disk, platform) :
        /\ disk' = r.disk
        /\ setup' = [op |-> "verify_installation", steps |-> <<>>, events |-> r.events,
                     ret |-> r.ret, answer |-> "none", jar_answer |-> "none"]
        /\ UNCHANGED <<platform, configVars, urlcall, autoVars, util, global_config>>

\* The file system the installer may find: no install directory, or one it may
\* or may not write, empty or with an installation made earlier.
InitialDisks ==
    {[dir |-> "missing", fiji |-> "absent", exe |-> FALSE, jars |-> {}]}
        \cup {[dir |-> dir, fiji |-> "absent", exe |-> FALSE, jars |-> {}]
              : dir \in {"readonly", "writable"}}
        \cup {[dir |-> dir, fiji |-> "old", exe |-> TRUE, jars |-> jars]
              : dir \in {"readonly", "writable"},
                jars \in {{}, {<<"thunder", "storm", ".jar">>}, {<<"Thunder", "STORM", ".jar">>}}}

InitSetup ==
    /\ ConfigIdle
    /\ UrlIdle
    /\ platform \in Platforms
    /\ disk \in InitialDisks
    /\ setup = NoSetupCall
    /\ AutoIdle
    /\ util = NoUtilCall
    /\ global_config = OneConfig

NextSetup ==
    \/ SetupAll
    \/ DownloadFiji
    \/ InstallThunderstorm
    \/ VerifyInstallation

SpecSetup == InitSetup /\ [][NextSetup]_vars

Happened(event) == \E i \in 1..Len(setup.events) : setup.events[i] = event

StepOrder == <<"check_permissions", "ensure_directory", "download_fiji",
               "install_thunderstorm", "verify_installation">>

C5_OnlyLowercaseY ==
    [][(setup'.op = "download_fiji" /\ disk.fiji # "absent" /\ setup'.answer \notin {"y", "EOF"})
          => (disk' = disk /\ setup'.ret = "true" /\ setup'.events = <<"prompt">>)]_vars

\* C5, amended: with Fiji.app present, download_fiji asks first and removes the
\* tree only when the answer was 'y' or 'Y' (the answer is lower-cased before it
\* is compared); for any other answer it leaves the tree as it is, downloads and
\* extracts nothing and returns true.
C5_ReinstallOnlyWhenConfirmed ==
    /\ [][(setup'.op = "download_fiji" /\ disk.fiji # "absent" /\ setup'.answer # "EOF")
             => /\ setup'.events[1] = "prompt"
                /\ IF setup'.answer \in {"y", "Y"}
                   THEN Len(setup'.events) >= 2 /\ setup'.events[2] = "rmtree"
                   ELSE disk' = disk /\ setup'.ret = "true" /\ setup'.events = <<"prompt">>]_vars
    /\ []((setup.op = "download_fiji" /\ Happened("rmtree"))
             => (setup.events[1] = "prompt" /\ setup.answer \in {"y", "Y"}))

C5_Witness ==
    /\ setup.op = "download_fiji"
    /\ setup.answer = "Y"
    /\ setup.events = <<"prompt", "rmtree", "download", "extract">>
    /\ disk.fiji = "new"
    /\ setup.ret = "true"

\* C12: the platform key of the Config is one of windows, darwin and linux
\* whatever the host reports, and no operation changes it after construction.
C12_PlatformEnumerated ==
    /\ [](platform \in {"windows", "darwin", "linux"})
    /\ [][platform' = platform]_vars

(***************************************************************************)
(* The automator: construction.  An executable path is a string; home      *)
(* stands for str(Path.home()).  present holds the paths that exist.       *)
(***************************************************************************)

\* Config._load_default_config, fiji.install_paths, read by
\* Config.get_fiji_install_paths: a platform without a key gets the default []
get_fiji_install_paths(plat) ==
    CASE plat = "windows" ->
             <<"C:\\Program Files\\Fiji.app\\ImageJ-win64.exe",
               "C:\\Program Files (x86)\\Fiji.app\\ImageJ-win64.exe",
               "home\\Fiji.app\\ImageJ-win64.exe",
               "home\\Desktop\\Fiji.app\\ImageJ-win64.exe">>
      [] plat = "darwin" ->
             <<"/Applications/Fiji.app/Contents/MacOS/ImageJ-macosx",
               "/Applications/Fiji.app/Contents/MacOS/ImageJ-macosx64",
               "home/Applications/Fiji.app/Contents/MacOS/ImageJ-macosx">>
      [] plat = "linux" ->
             <<"home/Fiji.app/ImageJ-linux64", "/opt/Fiji.app/ImageJ-linux64">>
      [] OTHER -> <<>>

\* The loop of _find_fiji_executable from index i on: the first path that
\* exists, with the paths probed up to it; None at the end of the list.
RECURSIVE ProbeLoop(_, _, _)
ProbeLoop(possible_paths, i, exist) ==
    IF i > Len(possible_paths) THEN [path |-> NoPath, probed |-> possible_paths]
    ELSE IF possible_paths[i] \in exist
         THEN [path |-> possible_paths[i], probed |-> SubSeq(possible_paths, 1, i)]
         ELSE ProbeLoop(possible_paths, i + 1, exist)

\* A search that probes the whole list and keeps the last path that exists.
find_fiji_executable_last(plat, exist) ==
    LET possible_paths == get_fiji_install_paths(plat)
        hits == {i \in 1..Len(possible_paths) : possible_paths[i] \in exist}
    IN  [path |-> IF hits = {} THEN NoPath
                  ELSE possible_paths[CHOOSE i \in hits : \A j \in hits : j <= i],
         probed |-> possible_paths]

find_fiji_executable(plat, exist) == ProbeLoop(get_fiji_install_paths(plat), 1, exist)

\* ThunderSTORMAutomator.__init__: the path is searched for only when the
\* argument is None; `not fiji_path` holds for None and for "".
ThunderSTORMAutomator(fiji_path, plat, exist) ==
    LET found == IF fiji_path = NoPath THEN find_fiji_executable(plat, exist)
                 ELSE [path |-> fiji_path, probed |-> <<>>]
        missing == found.path = NoPath \/ found.path = "" \/ found.path \notin exist
    IN  [resolved |-> found.path, probed |-> found.probed,
         ret |-> IF missing THEN "FileNotFoundError" ELSE "ok"]

CustomPath == "/custom/Fiji.app/ImageJ"

\* The executable paths construction can look at
ExecutablePaths(plat) ==
    {get_fiji_install_paths(plat)[i] : i \in 1..Len(get_fiji_install_paths(plat))}
        \cup {CustomPath}

\* The arguments of a construction: None, the empty string, a path
FijiPathArguments(plat) == {NoPath, "", CustomPath}

(***************************************************************************)
(* Paths of input files and output directories.  A path string is a        *)
(* sequence of pieces: "/" and "\\" are the two separator characters, "."  *)
(* is the current-directory component, every other piece is text without   *)
(* a separator.  A file extension is a piece of its own.                   *)
(***************************************************************************)
Sep(plat) == IF plat = "windows" THEN "\\" ELSE "/"

\* pathlib splits a Windows path at both characters, any other path at "/"
IsSep(piece, plat) == piece = "/" \/ (plat = "windows" /\ piece = "\\")

\* The components of a path from piece i on; cur is the component being read.
RECURSIVE SplitParts(_, _, _, _)
SplitParts(path, i, cur, plat) ==
    LET done == IF cur = <<>> THEN <<>> ELSE <<cur>>
    IN  IF i > Len(path) THEN done
        ELSE IF IsSep(path[i], plat) THEN done \o SplitParts(path, i + 1, <<>>, plat)
        ELSE SplitParts(path, i + 1, Append(cur, path[i]), plat)

RECURSIVE LeadingSeps(_, _, _)
LeadingSeps(path, i, plat) ==
    IF i <= Len(path) /\ IsSep(path[i], plat) THEN 1 + LeadingSeps(path, i + 1, plat) ELSE 0

\* str.find(sep, i): the first separator at position i or later, 0 when none
NextSep(path, i, plat) ==
    LET at == {j \in i..Len(path) : IsSep(path[j], plat)}
    IN  IF at = {} THEN 0 ELSE CHOOSE j \in at : \A k \in at : j <= k

\* ntpath.splitdrive: the length of the UNC drive of a Windows path.  A path
\* that starts with exactly two separators has the drive \\server\share when a
\* separator follows the server name and none follows that one at once.
\* (Drive letters are ordinary pieces here.)
UncDrive(path, plat) ==
    IF plat = "windows" /\ LeadingSeps(path, 1, plat) = 2 /\ Len(path) >= 3
    THEN LET index == NextSep(path, 3, plat)
             index2 == NextSep(path, index + 1, plat)
         IN  IF index = 0 \/ index2 = index + 1 THEN 0
             ELSE IF index2 = 0 THEN Len(path)
             ELSE index2 - 1
    ELSE 0

\* Path(path).parts without the anchor: empty and "." components are dropped
Parts(path, plat) ==
    SelectSeq(SplitParts(path, UncDrive(path, plat) + 1, <<>>, plat),
              LAMBDA part : part # <<".">>)

\* The anchor of a path.  A UNC drive is kept with its separators as
\* backslashes and is followed by a root; otherwise exactly two leading slashes
\* are kept by a POSIX path, and any other run of leading separators is one
\* separator.
Anchor(path, plat) ==
    LET n == LeadingSeps(path, 1, plat)
        drive == UncDrive(path, plat)
    IN  IF drive > 0
        THEN [i \in 1..drive |-> IF IsSep(path[i], plat) THEN "\\" ELSE path[i]] \o <<"\\">>
        ELSE IF n = 0 THEN <<>>
        ELSE IF plat # "windows" /\ n = 2 THEN <<"/", "/">>
        ELSE <<Sep(plat)>>

RECURSIVE JoinParts(_, _)
JoinParts(parts, sep) ==
    IF parts = <<>> THEN <<>>
    ELSE IF Len(parts) = 1 THEN parts[1]
    ELSE parts[1] \o <<sep>> \o JoinParts(Tail(parts), sep)

\* str(Path(path))
PathStr(path, plat) ==
    LET s == Anchor(path, plat) \o JoinParts(Parts(path, plat), Sep(plat))
    IN  IF s = <<>> THEN <<".">> ELSE s

\* The string of the path as pathlib gives it, with the separators of the host.
sanitize_path_without_replace(path, plat) == PathStr(path, plat)

\* FileUtils.sanitize_path: str(Path(path)).replace('\\', '/')
sanitize_path(path, plat) ==
    LET s == PathStr(path, plat)
    IN  [i \in 1..Len(s) |-> IF s[i] = "\\" THEN "/" ELSE s[i]]

\* The input files on disk, by their components below the working directory,
\* with their first bytes.
InputFiles ==
    {[at |-> <<<<"data">>, <<"stack", ".TIF">>>>, header |-> <<73, 73, 42, 0>>],
     [at |-> <<<<"data">>, <<"notes", ".txt">>>>, header |-> <<110, 111, 116, 101>>]}

\* The input paths a call may name
InputPaths ==
    {<<"data", "/", "stack", ".TIF">>,
     <<"data", "\\", "stack", ".TIF">>,
     <<".", "/", "data", "/", "/", "notes", ".txt">>,
     <<"missing", ".tif">>}

\* The output directory a call names, in a spelling pathlib normalises
OutputDirs == {<<".", "/", "out", "/">>}

FilesAt(path, plat) == {f \in InputFiles : f.at = Parts(path, plat)}

\* Path(path).exists()
PathExists(path, plat) == FilesAt(path, plat) # {}

\* Path(path).suffix
Suffix(path, plat) ==
    LET parts == Parts(path, plat)
        name == IF parts = <<>> THEN <<>> ELSE parts[Len(parts)]
    IN  IF Len(name) > 1 /\ name[Len(name)] \in {".tif", ".TIF", ".tiff", ".txt"}
        THEN name[Len(name)] ELSE ""

Slice(bytes, from, to) == SubSeq(bytes, from, IF to < Len(bytes) THEN to ELSE Len(bytes))

\* magic[:2] in [b'II', b'MM'] and magic[2:4] in [b'*\x00', b'\x00*']
MagicCheck(magic) ==
    /\ Slice(magic, 1, 2) \in {<<73, 73>>, <<77, 77>>}
    /\ Slice(magic, 3, 4) \in {<<42, 0>>, <<0, 42>>}

\* ImageUtils.validate_tiff_file on what the path names.  file.state is
\* "missing", "file", "unreadable" (a directory, or a file that open() refuses)
\* or "inaccessible" (stat() fails with an error other than ENOENT, ENOTDIR,
\* EBADF and ELOOP, which Path.exists() raises again).  The exists and suffix
\* tests stand outside the try block; open and read stand inside it.
validate_tiff(file) ==
    IF file.state = "inaccessible" THEN "PermissionError"
    ELSE IF file.state = "missing" THEN "false"
    ELSE IF LowerPiece(file.suffix) \notin {".tif", ".tiff"} THEN "false"
    ELSE IF file.state = "unreadable" THEN "false"
    ELSE IF MagicCheck(Slice(file.header, 1, 4)) THEN "true"
    ELSE "false"

\* ImageUtils.validate_tiff_file on an input path of the automator
validate_tiff_file(path, plat) ==
    LET file == IF PathExists(path, plat)
                THEN [state |-> "file", suffix |-> Suffix(path, plat),
                      header |-> (CHOOSE f \in FilesAt(path, plat) : TRUE).header]
                ELSE [state |-> "missing", suffix |-> Suffix(path, plat), header |-> <<>>]
    IN  validate_tiff(file) = "true"

(***************************************************************************)
(* Parameters and the macro.  Every parameter value is written as the text *)
(* the macro shows for it.                                                 *)
(***************************************************************************)

\* The keyword arguments of a call: none, or a switch turned off together with
\* a known key given another value and a key the defaults do not have
KeywordArguments ==
    {<<>>,
     [k \in {"create_reconstructed_image", "sigma", "roi"} |->
         CASE k = "create_reconstructed_image" -> "False"
           [] k = "sigma" -> "2.0"
           [] k = "roi" -> "full"]}

\* dict.update(kwargs)
Update(defaults, kwargs) ==
    [k \in DOMAIN defaults \cup DOMAIN kwargs |->
        IF k \in DOMAIN kwargs THEN kwargs[k] ELSE defaults[k]]

\* A call that updates the mapping the Config holds instead of a copy of it.
call_parameters_in_place(stored, kwargs) ==
    [params |-> Update(stored, kwargs), stored |-> Update(stored, kwargs)]

\* params = self.config.get_default_parameters().copy(); params.update(kwargs):
\* the parameters of the call, and the mapping the Config holds afterwards
call_parameters(stored, kwargs) ==
    [params |-> Update(stored, kwargs), stored |-> stored]

\* the truth value Python gives a parameter value
Truthy(v) == v \notin {"False", "0", "0.0", "", "None"}

\* params.get('create_reconstructed_image', True)
WantsReconstruction(params) ==
    IF "create_reconstructed_image" \in DOMAIN params
    THEN Truthy(params["create_reconstructed_image"]) ELSE TRUE

\* A macro that always has the visualization block.
generate_macro_always_visualizes(input_path, output_dir, params) ==
    <<[stmt |-> "open", path |-> input_path],
      [stmt |-> "check_image_open"],
      [stmt |-> "run_analysis",
       filter |-> params["processing_method"],
       estimator |-> params["localization_method"],
       sigma |-> params["sigma"],
       fitradius |-> params["fitting_radius"],
       gain |-> params["gain"],
       offset |-> params["offset"],
       pixelsize |-> params["pixel_size"]],
      [stmt |-> "export_results", path |-> output_dir \o <<"/", "results.csv">>],
      [stmt |-> "visualization_and_save",
       path |-> output_dir \o <<"/", "reconstructed_image.tif">>],
      [stmt |-> "close_all"]>>

\* ThunderSTORMAutomator._generate_macro: the statements of the script in order
generate_macro(input_path, output_dir, params) ==
    <<[stmt |-> "open", path |-> input_path],
      [stmt |-> "check_image_open"],
      [stmt |-> "run_analysis",
       filter |-> params["processing_method"],
       estimator |-> params["localization_method"],
       sigma |-> params["sigma"],
       fitradius |-> params["fitting_radius"],
       gain |-> params["gain"],
       offset |-> params["offset"],
       pixelsize |-> params["pixel_size"]],
      [stmt |-> "export_results", path |-> output_dir \o <<"/", "results.csv">>]>>
    \o (IF WantsReconstruction(params)
        THEN <<[stmt |-> "visualization_and_save",
                path |-> output_dir \o <<"/", "reconstructed_image.tif">>]>>
        ELSE <<>>)
    \o <<[stmt |-> "close_all"]>>

\* What is in the macro file when writing it failed after the file was opened
TruncatedMacro == <<[stmt |-> "truncated"]>>

(***************************************************************************)
(* The automator: run_thunderstorm_analysis.  out is the output directory. *)
(* A call is the set of its possible outcomes: the directory it leaves,    *)
(* what it returns ("true", "false", or the exception that leaves it), the *)
(* events it caused in order, and the return codes of the processes it     *)
(* ran.                                                                    *)
(***************************************************************************)
RunOutcome(dir, ret, events, returncodes) ==
    [out |-> dir, ret |-> ret, events |-> events, returncodes |-> returncodes]

\* What the external process can do: its return code as ProcessUtils.run_command
\* reports it (0, another code, -1 for a timeout or a failed launch) and the
\* files it has written by then; the macro exports results.csv before it saves
\* the reconstructed image.
ProcessResults ==
    {[returncode |-> rc, results |-> w[1], reconstructed |-> w[2]]
     : rc \in ReturnCodes, w \in {<<FALSE, FALSE>>, <<TRUE, FALSE>>, <<TRUE, TRUE>>}}

AfterProcess(dir, p) ==
    [dir EXCEPT !.results = @ \/ p.results, !.reconstructed = @ \/ p.reconstructed]

\* A result that also asks for results.csv.
process_analysis_results_needs_csv(returncode, dir, params) ==
    returncode = 0 /\ dir.results

\* ThunderSTORMAutomator._process_analysis_results; _verify_output_files looks
\* at the directory, prints, and catches what it raises
process_analysis_results(returncode, dir, params) == returncode = 0

\* ThunderSTORMAutomator._verify_output_files, called after return code 0:
\* the files it looks for in the output directory, in order
verify_output_files(returncode, params) ==
    IF returncode # 0 THEN <<>>
    ELSE <<"look results.csv">>
         \o (IF WantsReconstruction(params) THEN <<"look reconstructed_image.tif">> ELSE <<>>)
         \o <<"look thunderstorm_macro.ijm">>

Bool(b) == IF b THEN "true" ELSE "false"

\* A call that launches the process again after a return code of -1.
AnalyseExistingInputRetries(dir, input_path, output_dir, params, plat) ==
    LET made == [dir EXCEPT !.exists = TRUE]
        macro_script == generate_macro(sanitize_path(input_path, plat),
                                       sanitize_path(output_dir, plat), params)
        written == [made EXCEPT !.macro = macro_script]
        steps == <<"ensure_directory", "open", "write", "write_macro", "launch">>
    IN  {RunOutcome(AfterProcess(written, p), Bool(p.returncode = 0),
                    IF p.returncode = -1 THEN steps \o <<"launch">> ELSE steps,
                    IF p.returncode = -1 THEN <<-1, p.returncode>> ELSE <<p.returncode>>)
         : p \in ProcessResults}

\* A call that writes the macro file only when the directory holds none.
AnalyseExistingInputKeepsMacro(dir, input_path, output_dir, params, plat) ==
    LET made == [dir EXCEPT !.exists = TRUE]
        macro_script == generate_macro(sanitize_path(input_path, plat),
                                       sanitize_path(output_dir, plat), params)
        written == IF dir.macro = NoMacro THEN [made EXCEPT !.macro = macro_script] ELSE made
    IN  {RunOutcome(AfterProcess(written, p),
                    Bool(process_analysis_results(p.returncode, AfterProcess(written, p), params)),
                    <<"ensure_directory", "open", "write", "write_macro", "launch">>,
                    <<p.returncode>>)
         : p \in ProcessResults}

\* run_thunderstorm_analysis from the TIFF check on (lines 104-146)
AnalyseExistingInput(dir, input_path, output_dir, params, plat) ==
    LET warned == IF validate_tiff_file(input_path, plat) THEN <<>> ELSE <<"tiff_warning">>
        made == [dir EXCEPT !.exists = TRUE]
        macro_script == generate_macro(sanitize_path(input_path, plat),
                                       sanitize_path(output_dir, plat), params)
        written == [made EXCEPT !.macro = macro_script]
    IN  (IF dir.exists THEN {}
         ELSE {RunOutcome(dir, "raise", warned \o <<"ensure_directory">>, <<>>)})
        \cup {RunOutcome(made, "raise", warned \o <<"ensure_directory", "open">>, <<>>),
              RunOutcome([made EXCEPT !.macro = TruncatedMacro], "raise",
                         warned \o <<"ensure_directory", "open", "write">>, <<>>)}
        \cup {RunOutcome(AfterProcess(written, p),
                         Bool(process_analysis_results(p.returncode,
                                                       AfterProcess(written, p), params)),
                         warned \o <<"ensure_directory", "open", "write", "write_macro",
                                     "launch">> \o verify_output_files(p.returncode, params),
                         <<p.returncode>>)
              : p \in ProcessResults}

\* A call that creates the output directory before it looks for the input.
run_thunderstorm_analysis_checks_late(dir, input_path, output_dir, params, plat) ==
    IF ~PathExists(input_path, plat)
    THEN {RunOutcome([dir EXCEPT !.exists = TRUE], "FileNotFoundError",
                     <<"ensure_directory">>, <<>>)}
    ELSE AnalyseExistingInput(dir, input_path, output_dir, params, plat)

\* ThunderSTORMAutomator.run_thunderstorm_analysis from the input check on
\* (lines 100-146), with the parameters of the call
run_thunderstorm_analysis(dir, input_path, output_dir, params, plat) ==
    IF ~PathExists(input_path, plat)
    THEN {RunOutcome(dir, "FileNotFoundError", <<>>, <<>>)}
    ELSE AnalyseExistingInput(dir, input_path, output_dir, params, plat)

(***************************************************************************)
(* The operations of the automator.  The program holds at most one         *)
(* automator; a construction that raises leaves what it held.              *)
(***************************************************************************)
Construct(fiji_path, config_file) ==
    LET g == get_config(global_config, store, config_file)
        c == ThunderSTORMAutomator(fiji_path, platform, present)
    IN  /\ ctor' = IF g.raised
                   THEN [op |-> "construct", fiji_path |-> fiji_path, probed |-> <<>>,
                         resolved |-> NoPath, config_file |-> config_file, ret |-> "OSError"]
                   ELSE [op |-> "construct", fiji_path |-> fiji_path, probed |-> c.probed,
                         resolved |-> c.resolved, config_file |-> config_file, ret |-> c.ret]
        /\ automator' = IF ~g.raised /\ c.ret = "ok" THEN c.resolved ELSE automator
        /\ store' = g.config
        /\ global_config' = IF ~g.raised /\ c.ret = "ok"
                            THEN [g.global EXCEPT !.holders = Holds(g.global, "automator")]
                            ELSE g.global
        /\ UNCHANGED <<present, out, run>>
        /\ UNCHANGED <<last, urlcall, platform, installVars, util>>

RunAnalysis(input_path, output_dir, kwargs) ==
    LET p == call_parameters(global_config.default_parameters, kwargs)
    IN  /\ automator # NoPath
        /\ \E o \in run_thunderstorm_analysis(out, input_path, output_dir, p.params, platform) :
              /\ out' = o.out
              /\ run' = [op |-> "run", input_path |-> input_path, output_dir |-> output_dir,
                         kwargs |-> kwargs, params |-> p.params, events |-> o.events,
                         returncodes |-> o.returncodes, ret |-> o.ret]
        /\ global_config' = [global_config EXCEPT !.default_parameters = p.stored]
        /\ UNCHANGED <<present, automator, ctor>>
        /\ UNCHANGED <<configVars, urlcall, platform, installVars, util>>

\* The config_file arguments of a call: none, files that are not loaded, and
\* a document that changes the store
ConfigFileArguments ==
    {NoFile, [kind |-> "inaccessible", doc |-> None], [kind |-> "invalid_json", doc |-> None],
     [kind |-> "document", doc |-> Map([k \in {"timeout"} |-> Val("test_value")])]}

InitAuto ==
    /\ ConfigIdle
    /\ UrlIdle
    /\ InstallIdle
    /\ platform \in Platforms
    /\ present \in {s \in SUBSET ExecutablePaths(platform) : Cardinality(s) <= MaxPresent}
    /\ automator = NoPath
    /\ ctor = NoConstruction
    /\ out = NoOutputDir
    /\ run = NoRun
    /\ util = NoUtilCall
    /\ global_config = OneConfig

NextAuto ==
    \/ \E fiji_path \in FijiPathArguments(platform) : Construct(fiji_path, NoFile)
    \/ \E input_path \in InputPaths, output_dir \in OutputDirs, kwargs \in KeywordArguments :
          RunAnalysis(input_path, output_dir, kwargs)

SpecAuto == InitAuto /\ [][NextAuto]_vars

RunEvent(event) == \E i \in 1..Len(run.events) : run.events[i] = event

\* C1: a run_thunderstorm_analysis call whose input exists and whose macro file
\* was written launched the process once and returns a boolean, true exactly
\* when the return code is 0: any other code, -1 included, gives false and no
\* exception, and 0 gives true whatever files the output directory holds and
\* whether or not the input passed the TIFF check.
C1_ReturnCodeDecides ==
    (run.op = "run" /\ PathExists(run.input_path, platform) /\ RunEvent("write_macro")) =>
        /\ Len(run.returncodes) = 1
        /\ run.ret \in {"true", "false"}
        /\ run.ret = "true" <=> run.returncodes[1] = 0

C1_Witness ==
    /\ run.op = "run"
    /\ RunEvent("write_macro")
    /\ run.returncodes = <<0>>
    /\ run.ret = "true"
    /\ RunEvent("tiff_warning")
    /\ ~out.results
    /\ ~out.reconstructed

\* C2: a run_thunderstorm_analysis call whose input path does not exist ends
\* with FileNotFoundError and has caused nothing: no directory creation, no
\* macro write, no launch, and the output directory is as it was before.
C2_MissingInputNoEffect ==
    /\ []((run.op = "run" /\ ~PathExists(run.input_path, platform))
             => /\ run.ret = "FileNotFoundError"
                /\ run.events = <<>>
                /\ run.returncodes = <<>>)
    /\ [][run'.ret = "FileNotFoundError" => out' = out]_vars

C2_Witness ==
    /\ run.op = "run"
    /\ run.input_path = <<"data", "\\", "stack", ".TIF">>
    /\ run.ret = "FileNotFoundError"
    /\ ~out.exists
    /\ out.macro = NoMacro

FirstExisting(paths, i) ==
    /\ i \in 1..Len(paths)
    /\ paths[i] \in present
    /\ \A j \in 1..(i - 1) : paths[j] \notin present

\* C3: construction with an override uses the override and probes nothing;
\* construction without one resolves to the first path of the platform's list
\* that exists, or to nothing when none exists.  It raises FileNotFoundError
\* exactly when the resolved path is absent, empty or does not exist; a
\* construction that raises yields no automator and changes nothing else, and
\* only a path that exists is ever held by an automator, without which no
\* analysis runs.
C3_ResolveExecutable ==
    /\ [](ctor.op = "construct" =>
            LET paths == get_fiji_install_paths(platform)
            IN  /\ ctor.fiji_path # NoPath =>
                       (ctor.probed = <<>> /\ ctor.resolved = ctor.fiji_path)
                /\ ctor.fiji_path = NoPath =>
                       /\ \A i \in 1..Len(paths) :
                              FirstExisting(paths, i) =>
                                  (ctor.resolved = paths[i] /\ ctor.probed = SubSeq(paths, 1, i))
                       /\ (~\E i \in 1..Len(paths) : FirstExisting(paths, i)) =>
                              (ctor.resolved = NoPath /\ ctor.probed = paths)
                /\ ctor.ret \in {"ok", "FileNotFoundError"}
                /\ ctor.ret = "FileNotFoundError" <=>
                       (ctor.resolved \in {NoPath, ""} \/ ctor.resolved \notin present))
    /\ [](automator # NoPath => automator \in present)
    /\ [](run.op = "run" => automator # NoPath)
    /\ [][(ctor' # ctor /\ ctor'.ret = "FileNotFoundError")
             => (automator' = automator /\ out' = out /\ run' = run)]_vars
    /\ [][(ctor' # ctor /\ ctor'.ret = "ok") => automator' = ctor'.resolved]_vars

C3_Witness ==
    /\ ctor.op = "construct"
    /\ ctor.fiji_path = NoPath
    /\ Len(ctor.probed) = 2
    /\ ctor.resolved = get_fiji_install_paths(platform)[2]
    /\ \E i \in 3..Len(get_fiji_install_paths(platform)) :
          get_fiji_install_paths(platform)[i] \in present
    /\ ctor.ret = "ok"
    /\ automator = ctor.resolved

(***************************************************************************)
(* FileUtils.sanitize_path on its own: a call with any path string.        *)
(***************************************************************************)
MaxPathLen == 3

\* The pieces a path string is made of
PathPieces == {"a", ".", "/", "\\"}

PathStrings == UNION {[1..n -> PathPieces] : n \in 0..MaxPathLen}

\* The methods of utils.py are static and keep no state: one call in a
\* behaviour shows every result.
SanitizePath(path) ==
    /\ util = NoUtilCall
    /\ util' = [op |-> "sanitize_path", path |-> path,
                ret |-> sanitize_path(path, platform)]
    /\ UNCHANGED <<configVars, urlcall, platform, installVars, autoVars, global_config>>

(***************************************************************************)
(* ImageUtils.validate_tiff_file on its own: a call on any file.           *)
(***************************************************************************)
MaxHeaderLen == 4

\* The bytes of 'I', 'M', '*' and NUL
HeaderBytes == {73, 77, 42, 0}

\* What a path may name: nothing, a file with its first bytes, something that
\* cannot be opened, or something that cannot be examined
TiffFiles ==
    {[state |-> state, suffix |-> suffix, header |-> header] :
        state \in {"missing", "file", "unreadable", "inaccessible"},
        suffix \in {".tif", ".TIF", ".tiff", ".txt", ""},
        header \in UNION {[1..n -> HeaderBytes] : n \in 0..MaxHeaderLen}}

ValidateTiffFile(file) ==
    /\ util = NoUtilCall
    /\ util' = [op |-> "validate_tiff_file", file |-> file, ret |-> validate_tiff(file)]
    /\ UNCHANGED <<configVars, urlcall, platform, installVars, autoVars, global_config>>

(***************************************************************************)
(* ProcessUtils.run_command on its own.  What subprocess.run does is the   *)
(* input: the child outlives the timeout and is killed, the child cannot   *)
(* be started, or the child exits with a return code and its output.       *)
(* text=True decodes the output that was captured.                         *)
(***************************************************************************)
\* stdout or stderr of subprocess.run before decoding: None when capture_output
\* is false, otherwise nothing, the text "ok", or a byte that is not UTF-8
ChildOutputs ==
    {[captured |-> FALSE, bytes |-> <<>>]}
        \cup {[captured |-> TRUE, bytes |-> bytes] : bytes \in {<<>>, <<111, 107>>, <<255>>}}

Decodable(output) == \A i \in 1..Len(output.bytes) : output.bytes[i] < 128

\* the str that text=True makes of captured bytes
Decode(output) ==
    [i \in 1..Len(output.bytes) |->
        CASE output.bytes[i] = 111 -> "o" [] output.bytes[i] = 107 -> "k" [] OTHER -> "?"]

CommandOutcomes ==
    {[kind |-> "timeout"], [kind |-> "launch_failure"]}
        \cup {[kind |-> "exited", returncode |-> rc, stdout |-> o, stderr |-> e] :
                  rc \in ReturnCodes, o \in ChildOutputs, e \in ChildOutputs}

\* result.stdout or "": None and the empty string both give ""
OrEmpty(output) == IF output.captured THEN Decode(output) ELSE <<>>

\* ProcessUtils.run_command: the triple it returns.  Every Exception that
\* subprocess.run raises is caught, the UnicodeDecodeError of text=True too.
run_command(o) ==
    IF o.kind = "timeout" THEN <<-1, <<>>, <<"Process timed out">>>>
    ELSE IF o.kind = "launch_failure" THEN <<-1, <<>>, <<"[Errno 2] No such file or directory">>>>
    ELSE IF ~(Decodable(o.stdout) /\ Decodable(o.stderr)) THEN <<-1, <<>>, <<"'utf-8' codec can't decode byte 0xff">>>>
    ELSE <<o.returncode, OrEmpty(o.stdout), OrEmpty(o.stderr)>>

RunCommand(o) ==
    /\ util = NoUtilCall
    /\ util' = [op |-> "run_command", outcome |-> o, ret |-> run_command(o), raised |-> FALSE]
    /\ UNCHANGED <<configVars, urlcall, platform, installVars, autoVars, global_config>>

(***************************************************************************)
(* FileUtils.extract_archive on its own.  An archive is its file name in   *)
(* pieces, a piece that begins with a dot being an extension, and what the *)
(* file holds: a zip archive, a tar archive (compressed or not), or        *)
(* something that is neither.                                              *)
(***************************************************************************)
Archives ==
    {[name |-> name, holds |-> holds] :
        name \in {<<"fiji", ".zip">>, <<"fiji", ".ZIP">>, <<"fiji", ".tar">>, <<"fiji", ".tgz">>,
                  <<"fiji", ".tar", ".gz">>, <<"fiji", ".rar">>, <<"fiji">>},
        holds \in {"zip", "tar", "other"}}

\* archive_path.suffix.lower(): the last extension of the name only
ArchiveSuffix(name) == IF Len(name) > 1 THEN LowerPiece(name[Len(name)]) ELSE ""

\* FileUtils.extract_archive: the routine it calls, whether files were
\* extracted, and what it returns; every exception is caught.
extract_archive(archive) ==
    LET suffix == ArchiveSuffix(archive.name)
        routine == IF suffix = ".zip" THEN "zip"
                   ELSE IF suffix \in {".tar", ".tgz", ".tar.gz"} THEN "tar"
                   ELSE "none"
        ok == routine # "none" /\ archive.holds = routine
    IN  [routine |-> routine, extracted |-> ok, ret |-> IF ok THEN "true" ELSE "false"]

ExtractArchive(archive) ==
    /\ util = NoUtilCall
    /\ util' = [op |-> "extract_archive", archive |-> archive, did |-> extract_archive(archive)]
    /\ UNCHANGED <<configVars, urlcall, platform, installVars, autoVars, global_config>>

\* The directories check_permissions is called on: path does not exist, or
\* is a directory the caller may or may not write; its files have a name, a
\* content, and are the caller's to touch or not.
ProbeFiles ==
    {[name |-> "other.txt", content |-> "data", mine |-> TRUE]}
        \cup {[name |-> "test_write_permission.tmp", content |-> content, mine |-> mine]
              : content \in {"", "data"}, mine \in BOOLEAN}

ProbeDirectories ==
    {[state |-> "missing", files |-> {}]}
        \cup {[state |-> state, files |-> files]
              : state \in {"readonly", "writable"},
                files \in {fs \in SUBSET ProbeFiles :
                              \A f, g \in fs : f.name = g.name => f = g}}

\* FileUtils.check_permissions on a directory: Path.touch updates the times of
\* a file that is there (and creates the file, empty, otherwise), Path.unlink
\* removes it; PermissionError and every other OSError give False.
FileUtils_check_permissions(dir) ==
    LET there == {f \in dir.files : f.name = "test_write_permission.tmp"}
    IN  IF dir.state = "missing" THEN [ret |-> FALSE, dir |-> dir]
        ELSE IF there = {}
        THEN [ret |-> dir.state = "writable", dir |-> dir]
        ELSE IF \E f \in there : ~f.mine THEN [ret |-> FALSE, dir |-> dir]
        ELSE IF dir.state = "readonly" THEN [ret |-> FALSE, dir |-> dir]
        ELSE [ret |-> TRUE, dir |-> [dir EXCEPT !.files = dir.files \ there]]

CheckPermissions(dir) ==
    /\ util = NoUtilCall
    /\ util' = [op |-> "check_permissions", before |-> dir,
                did |-> FileUtils_check_permissions(dir)]
    /\ UNCHANGED <<configVars, urlcall, platform, installVars, autoVars, global_config>>

InitUtils ==
    /\ ConfigIdle
    /\ UrlIdle
    /\ InstallIdle
    /\ AutoIdle
    /\ global_config = OneConfig
    /\ platform \in Platforms
    /\ util = NoUtilCall

NextUtils ==
    \/ \E path \in PathStrings : SanitizePath(path)
    \/ \E file \in TiffFiles : ValidateTiffFile(file)
    \/ \E o \in CommandOutcomes : RunCommand(o)
    \/ \E archive \in Archives : ExtractArchive(archive)
    \/ \E dir \in ProbeDirectories : CheckPermissions(dir)

SpecUtils == InitUtils /\ [][NextUtils]_vars

\* C13: sanitize_path returns its input with every backslash replaced by a
\* forward slash and nothing else altered, added or removed, so that the result
\* has the input's length and holds no backslash.
C13_OnlyBackslashesReplaced ==
    util.op = "sanitize_path" =>
        /\ Len(util.ret) = Len(util.path)
        /\ \A i \in 1..Len(util.path) :
               util.ret[i] = IF util.path[i] = "\\" THEN "/" ELSE util.path[i]

\* C14: validate_tiff_file never raises, and returns true exactly when the
\* path names a file whose extension is .tif or .tiff in any letter case and
\* whose first four bytes are 49 49 2A 00 or 4D 4D 00 2A; a mixed form of the
\* header, a shorter file, another extension or a missing path gives false.
C14_TiffExactlyTwoHeaders ==
    util.op = "validate_tiff_file" =>
        /\ util.ret \in {"true", "false"}
        /\ util.ret = "true" <=>
               /\ util.file.state = "file"
               /\ LowerPiece(util.file.suffix) \in {".tif", ".tiff"}
               /\ Slice(util.file.header, 1, 4) \in {<<73, 73, 42, 0>>, <<77, 77, 0, 42>>}

\* C15: run_command never raises; a child that outlives the timeout gives -1
\* and a non-empty message, a child that cannot be launched gives -1 and the
\* failure text, and in every other case the result is the child's own return
\* code with its captured stdout and stderr.
C15_RunCommandResult ==
    util.op = "run_command" =>
        /\ ~util.raised
        /\ util.outcome.kind = "timeout" => (util.ret[1] = -1 /\ util.ret[3] # <<>>)
        /\ util.outcome.kind = "launch_failure" =>
               (util.ret[1] = -1 /\ util.ret[3] = <<"[Errno 2] No such file or directory">>)
        /\ util.outcome.kind = "exited" =>
               /\ util.ret[1] = util.outcome.returncode
               /\ Decodable(util.outcome.stdout) =>
                      util.ret[2] = OrEmpty(util.outcome.stdout)
               /\ Decodable(util.outcome.stderr) =>
                      util.ret[3] = OrEmpty(util.outcome.stderr)

\* The macro that the arguments of the latest call give
MacroOfCall ==
    generate_macro(sanitize_path(run.input_path, platform),
                   sanitize_path(run.output_dir, platform), run.params)

MacroPaths == {out.macro[i].path : i \in {j \in 1..Len(out.macro) : "path" \in DOMAIN out.macro[j]}}

MacroStatement(stmt, path) ==
    \E i \in 1..Len(out.macro) : out.macro[i].stmt = stmt /\ out.macro[i].path = path

\* C17: the macro written by a call opens exactly the sanitized input path,
\* exports to exactly the sanitized output directory followed by /results.csv
\* and, when it saves the image, to that directory followed by
\* /reconstructed_image.tif; no path in the macro holds a backslash.
C17_MacroEmbedsSanitizedPaths ==
    (run.op = "run" /\ RunEvent("write_macro")) =>
        LET input == sanitize_path(run.input_path, platform)
            dir == sanitize_path(run.output_dir, platform)
        IN  /\ MacroStatement("open", input)
            /\ MacroStatement("export_results", dir \o <<"/", "results.csv">>)
            /\ WantsReconstruction(run.params) =>
                   MacroStatement("visualization_and_save",
                                  dir \o <<"/", "reconstructed_image.tif">>)
            /\ Cardinality(MacroPaths) = IF WantsReconstruction(run.params) THEN 3 ELSE 2
            /\ \A path \in MacroPaths : \A i \in 1..Len(path) : path[i] # "\\"

C17_Witness ==
    /\ platform = "windows"
    /\ run.op = "run"
    /\ RunEvent("write_macro")
    /\ run.input_path = <<"data", "\\", "stack", ".TIF">>
    /\ MacroStatement("open", <<"data", "/", "stack", ".TIF">>)
    /\ MacroStatement("export_results", <<"out", "/", "results.csv">>)

\* C18: the parameters of a call are the stored default parameters with the
\* keyword arguments of the call on top: a key of the call wins, a key the
\* defaults do not have is inserted.  No call changes the stored defaults, so
\* a call without keyword arguments uses the defaults as they were configured.
C18_OverridesLeaveDefaults ==
    /\ [](run.op = "run" =>
            LET stored == global_config.default_parameters
            IN  /\ DOMAIN run.params = DOMAIN stored \cup DOMAIN run.kwargs
                /\ \A k \in DOMAIN run.params :
                       run.params[k] = IF k \in DOMAIN run.kwargs THEN run.kwargs[k]
                                       ELSE stored[k])
    /\ []((run.op = "run" /\ run.kwargs = <<>>) => run.params = DefaultParameters)
    /\ [][global_config'.default_parameters = global_config.default_parameters]_vars

C18_Witness ==
    /\ run.op = "run"
    /\ RunEvent("launch")
    /\ run.params["sigma"] = "2.0"
    /\ run.params["roi"] = "full"
    /\ run.params["pixel_size"] = "100.0"
    /\ global_config.default_parameters["sigma"] = "1.6"
    /\ "roi" \notin DOMAIN global_config.default_parameters

(***************************************************************************)
(* The shared Config: get_config and the two constructors that call it,    *)
(* from the import of the package on.                                      *)
(***************************************************************************)
GetConfig(config_file) ==
    LET g == get_config(global_config, store, config_file)
    IN  /\ store' = g.config
        /\ global_config' = IF g.raised THEN g.global
                            ELSE [g.global EXCEPT !.holders = Holds(g.global, "caller")]
        /\ UNCHANGED <<last, urlcall, platform, installVars, autoVars, util>>

\* FijiSetup.__init__: get_config, then the paths of the installation
FijiSetup(config_file) ==
    LET g == get_config(global_config, store, config_file)
    IN  /\ store' = g.config
        /\ global_config' = IF g.raised THEN g.global
                            ELSE [g.global EXCEPT !.holders = Holds(g.global, "installer")]
        /\ UNCHANGED <<last, urlcall, platform, installVars, autoVars, util>>

InitShared ==
    /\ ConfigIdle
    /\ UrlIdle
    /\ InstallIdle
    /\ platform \in Platforms
    /\ present \in {s \in SUBSET ExecutablePaths(platform) : Cardinality(s) <= 1}
    /\ automator = NoPath
    /\ ctor = NoConstruction
    /\ out = NoOutputDir
    /\ run = NoRun
    /\ util = NoUtilCall
    /\ global_config = NoConfig

NextShared ==
    \/ \E config_file \in ConfigFileArguments : GetConfig(config_file)
    \/ \E config_file \in ConfigFileArguments : FijiSetup(config_file)
    \/ \E fiji_path \in FijiPathArguments(platform), config_file \in ConfigFileArguments :
          Construct(fiji_path, config_file)

SpecShared == InitShared /\ [][NextShared]_vars

(***************************************************************************)
(* run_example.py: run_fiji_setup and the construction that follows it.    *)
(* Here disk holds what the example finds on the host: PROGRAMFILES of the *)
(* environment, the default install directory and the fallback directory   *)
(* in the user's home; present holds the executable paths that exist.      *)
(***************************************************************************)

\* os.environ.get("PROGRAMFILES", "C:\\Program Files")
ProgramFiles == {"C:\\Program Files", "D:\\Programs"}

\* Config.get_fiji_default_install_dir: fiji.default_install_dirs, with
\* str(Path.home()) for a platform without a key
get_fiji_default_install_dir(plat, programfiles) ==
    CASE plat = "windows" -> programfiles
      [] plat = "darwin" -> "/Applications"
      [] OTHER -> "home"

\* Path.home() / "fiji_automator_install"
user_install_dir(plat) == "home" \o Sep(plat) \o "fiji_automator_install"

\* FijiSetup.get_fiji_executable below install_dir / "Fiji.app"
get_fiji_executable(install_dir, plat) ==
    CASE plat = "windows" -> install_dir \o "\\Fiji.app\\ImageJ-win64.exe"
      [] plat = "darwin" -> install_dir \o "/Fiji.app/Contents/MacOS/ImageJ-macosx"
      [] plat = "linux" -> install_dir \o "/Fiji.app/ImageJ-linux64"
      [] OTHER -> NoPath

\* The hosts the example runs on: the default directory holds an installation
\* exactly when its executable is among the paths that exist
ExampleHosts(plat, exist) ==
    UNION {{[programfiles |-> programfiles, default |-> d, user |-> u]
            : d \in {x \in InitialDisks :
                       x.exe <=> get_fiji_executable(
                                     get_fiji_default_install_dir(plat, programfiles),
                                     plat) \in exist},
              u \in {x \in InitialDisks : ~x.exe}}
           : programfiles \in ProgramFiles}

\* run_fiji_setup: True when an automator can be constructed; otherwise
\* setup_all in the default install directory, or in the user directory when
\* the default one fails the permission check
RunFijiSetup ==
    LET a == ThunderSTORMAutomator(NoPath, platform, present)
        usable == \E p \in check_permissions(disk.default) : p.ret = "true"
        install_dir == IF usable
                       THEN get_fiji_default_install_dir(platform, disk.programfiles)
                       ELSE user_install_dir(platform)
        executable == get_fiji_executable(install_dir, platform)
    IN  /\ util = NoUtilCall
        /\ IF a.ret = "ok"
           THEN /\ util' = [op |-> "run_fiji_setup", ret |-> "true", install_dir |-> "None",
                            executable |-> a.resolved, steps |-> <<>>]
                /\ UNCHANGED <<disk, present>>
           ELSE \E r \in setup_all(IF usable THEN disk.default ELSE disk.user, platform) :
                    /\ util' = [op |-> "run_fiji_setup", ret |-> r.ret,
                                install_dir |-> install_dir, executable |-> executable,
                                steps |-> r.steps]
                    /\ disk' = IF usable THEN [disk EXCEPT !.default = r.disk]
                               ELSE [disk EXCEPT !.user = r.disk]
                    /\ present' = IF r.disk.exe THEN present \cup {executable}
                                  ELSE present \ {executable}
        /\ UNCHANGED <<configVars, urlcall, platform, setup, automator, ctor, out, run,
                       global_config>>

\* run_example_analysis: ThunderSTORMAutomator() once run_fiji_setup returned True
ExampleConstruct ==
    /\ util.op = "run_fiji_setup"
    /\ util.ret = "true"
    /\ Construct(NoPath, NoFile)

InitExample ==
    /\ ConfigIdle
    /\ UrlIdle
    /\ platform \in Platforms
    /\ present \in {s \in SUBSET ExecutablePaths(platform) : Cardinality(s) <= MaxPresent}
    /\ disk \in ExampleHosts(platform, present)
    /\ setup = NoSetupCall
    /\ automator = NoPath
    /\ ctor = NoConstruction
    /\ out = NoOutputDir
    /\ run = NoRun
    /\ util = NoUtilCall
    /\ global_config = OneConfig

NextExample ==
    \/ RunFijiSetup
    \/ ExampleConstruct

SpecExample == InitExample /\ [][NextExample]_vars

\* C19: the shared Config is constructed at most once and then reused: every
\* caller of get_config, every automator and every installer holds the one
\* instance, whose store is what the config_file of the constructing call gave;
\* once it exists no call constructs another, loads a file or changes the store.
C19_OneSharedConfig ==
    /\ [](global_config.made <= 1)
    /\ [](\A h \in global_config.holders : h[2] = 1 /\ global_config.instance = 1)
    /\ [](global_config.instance # 0 => store = Config(global_config.file))
    /\ [][global_config.instance # 0 =>
             /\ global_config'.instance = global_config.instance
             /\ global_config'.made = global_config.made
             /\ global_config'.file = global_config.file
             /\ store' = store]_vars

C19_Witness ==
    /\ global_config.made = 1
    /\ global_config.file = NoFile
    /\ store = DefaultConfig
    /\ global_config.holders = {<<"caller", 1>>, <<"automator", 1>>, <<"installer", 1>>}
    /\ ctor.op = "construct"
    /\ ctor.config_file.kind = "document"
    /\ ctor.ret = "ok"

\* C20: verify_installation returns true if and only if the Fiji.app directory
\* exists, the executable of the platform exists in it, the plugins directory
\* holds at least one jar that the search finds, and the test run ends with
\* return code 0; the test process is launched exactly when the three file
\* checks have passed.
C20_VerifyInstallation ==
    [][setup'.op = "verify_installation" =>
          LET files == /\ disk.fiji # "absent"
                       /\ platform \in {"windows", "darwin", "linux"}
                       /\ disk.exe
                       /\ find_plugin_jars(disk, platform) # {}
              launched == \E i \in 1..Len(setup'.events) : setup'.events[i] = "launch"
              zero == \E i \in 1..Len(setup'.events) : setup'.events[i] = "returncode 0"
          IN  /\ setup'.ret \in {"true", "false"}
              /\ setup'.ret = "true" <=> (files /\ zero)
              /\ launched <=> files
              /\ disk' = disk]_vars

C20_Witness ==
    /\ setup.op = "verify_installation"
    /\ setup.ret = "false"
    /\ setup.events = <<"launch", "returncode 1">>
    /\ disk.fiji # "absent"
    /\ disk.exe
    /\ find_plugin_jars(disk, platform) # {}

\* C21: extract_archive never raises and dispatches on the extension of the
\* name: .zip goes to the zip routine; .tar, .tgz and .tar.gz go to the tar
\* routine and give true when the archive is a good one; any other name
\* gives false with nothing extracted.
C21_DispatchOnExtension ==
    util.op = "extract_archive" =>
        LET name == util.archive.name
            ext == LowerPiece(name[Len(name)])
            tar == \/ ext \in {".tar", ".tgz"}
                   \/ (Len(name) > 2 /\ name[Len(name) - 1] = ".tar" /\ ext = ".gz")
        IN  /\ util.did.ret \in {"true", "false"}
            /\ ext = ".zip" => util.did.routine = "zip"
            /\ tar => /\ util.did.routine = "tar"
                      /\ util.archive.holds = "tar" => util.did.ret = "true"
            /\ ~(ext = ".zip" \/ tar) =>
                   (util.did.routine = "none" /\ ~util.did.extracted /\ util.did.ret = "false")

Launches == {i \in 1..Len(run.events) : run.events[i] = "launch"}

\* C22: a run_thunderstorm_analysis call launches the process at most once,
\* and exactly once when the input exists and the macro was written; whatever
\* the return code (-1 for a timeout or a failed launch, another code, 0) the
\* call returns after that one launch, and the launch comes after the write of
\* the macro file.
C22_OneLaunchNoRetry ==
    run.op = "run" =>
        /\ Cardinality(Launches) <= 1
        /\ Len(run.returncodes) = Cardinality(Launches)
        /\ Cardinality(Launches) = 1 <=>
               (PathExists(run.input_path, platform) /\ RunEvent("write_macro"))
        /\ \A i \in Launches :
               /\ \E j \in 1..(i - 1) : run.events[j] = "write_macro"
               /\ run.ret \in {"true", "false"}

C22_Witness ==
    /\ run.op = "run"
    /\ run.returncodes = <<-1>>
    /\ run.ret = "false"
    /\ RunEvent("write_macro")
    /\ run.events[Len(run.events)] = "launch"
    /\ Cardinality(Launches) = 1

\* C23: no failing setup_all or download_fiji call cleans up or restores.
\* Without a confirmed reinstall the old tree stays as it was and no jar is
\* lost unless its replacement was confirmed; a tree that download_fiji
\* installed and a jar that install_thunderstorm downloaded are still there
\* when a later step fails; a confirmed reinstall removes the old tree before
\* the download starts, so when the download or the extraction then fails the
\* directory holds neither the old tree nor a complete new one.
C23_NoRollback ==
    [][(setup'.op \in {"setup_all", "download_fiji"} /\ setup'.ret = "false") =>
          LET events == setup'.events
              steps == setup'.steps
              At(event) == {i \in 1..Len(events) : events[i] = event}
              fiji_failed == \/ setup'.op = "download_fiji"
                             \/ (Len(steps) = 3 /\ steps[3][2] = "false")
          IN  /\ (At("rmtree") = {} /\ disk.fiji # "absent") =>
                     (disk'.fiji = disk.fiji /\ disk'.exe = disk.exe)
              /\ (At("rmtree") = {} /\ At("remove_jars") = {}) => disk.jars \subseteq disk'.jars
              /\ (Len(steps) > 3 /\ At("extract") # {}) => disk'.fiji = "new"
              /\ (Len(steps) = 5 /\ At("download_jar") # {}) => disk'.jars # {}
              /\ \A i \in At("rmtree") : \A j \in At("download") : i < j
              /\ (At("rmtree") # {} /\ fiji_failed) =>
                     /\ setup'.answer \in {"y", "Y"}
                     /\ disk'.fiji \in {"absent", "partial"}
                     /\ ~disk'.exe]_vars

C23_Witness ==
    /\ setup.op = "setup_all"
    /\ setup.ret = "false"
    /\ setup.answer = "y"
    /\ setup.steps[3] = <<"download_fiji", "false">>
    /\ setup.events = <<"prompt", "rmtree", "download", "extract">>
    /\ disk.fiji = "partial"
    /\ ~disk.exe

\* C24: the macro of a call has its statements in the order open, check that
\* an image is open, run analysis, export results, visualization and save,
\* close all, the visualization block being there exactly when the merged
\* parameter create_reconstructed_image is truthy; after return code 0 the
\* call looks for reconstructed_image.tif under exactly that condition, and
\* after any other return code it looks for no file.
C24_MacroOrderAndVisualization ==
    (run.op = "run" /\ RunEvent("write_macro")) =>
        LET truthy == run.params["create_reconstructed_image"] \notin {"False", "0", "0.0", "", "None"}
            statements == [i \in 1..Len(out.macro) |-> out.macro[i].stmt]
        IN  /\ statements =
                   IF truthy
                   THEN <<"open", "check_image_open", "run_analysis", "export_results",
                          "visualization_and_save", "close_all">>
                   ELSE <<"open", "check_image_open", "run_analysis", "export_results",
                          "close_all">>
            /\ run.returncodes = <<0>> =>
                   /\ RunEvent("look results.csv")
                   /\ RunEvent("look reconstructed_image.tif") <=> truthy
            /\ run.returncodes # <<0>> =>
                   (~RunEvent("look results.csv") /\ ~RunEvent("look reconstructed_image.tif"))

C24_Witness ==
    /\ run.op = "run"
    /\ run.returncodes = <<0>>
    /\ run.kwargs # <<>>
    /\ run.params["create_reconstructed_image"] = "False"
    /\ Len(out.macro) = 5
    /\ RunEvent("look results.csv")
    /\ ~RunEvent("look reconstructed_image.tif")

\* C25: the permission check of setup_all returns true exactly for an install
\* directory that exists and is writable, and false for one that does not
\* exist; setup_all on a missing install directory returns false at the
\* permission check, starts no other step and leaves the disk as it was, so
\* the directory-creation step is reached only with the directory in place
\* and creates nothing.
C25_MissingDirectoryNeverCreated ==
    [][setup'.op = "setup_all" =>
         /\ setup'.steps[1] = <<"check_permissions", IF disk.dir = "writable" THEN "true" ELSE "false">>
         /\ disk.dir = "missing" =>
                /\ setup'.ret = "false"
                /\ Len(setup'.steps) = 1
                /\ setup'.events = <<>>
                /\ disk' = disk
         /\ Len(setup'.steps) >= 2 =>
                /\ disk.dir = "writable"
                /\ setup'.steps[2] = <<"ensure_directory", "true">>
                /\ (setup'.events # <<>> => setup'.events[1] # "mkdir")]_vars

C25_Witness ==
    /\ setup.op = "setup_all"
    /\ disk.dir = "missing"
    /\ setup.ret = "false"
    /\ setup.steps = <<(<<"check_permissions", "false">>)>>
    /\ setup.events = <<>>

\* C26: check_permissions changes nothing: the directory holds the same files
\* with the same contents after the call as before it, whatever it returns,
\* a directory that already holds test_write_permission.tmp included.
C26_ProbeLeavesDirectory ==
    util.op = "check_permissions" => util.did.dir = util.before

\* C27: a jar that install_thunderstorm downloaded into the plugins directory
\* is found by the "*thunderstorm*.jar" search: after an install_thunderstorm
\* that downloaded and returned true, alone or as the fourth step of
\* setup_all, the search of verify_installation finds a plugin jar.
C27_InstalledPluginIsFound ==
    (/\ setup.op \in {"install_thunderstorm", "setup_all"}
     /\ Happened("download_jar")
     /\ \/ setup.op = "install_thunderstorm" /\ setup.ret = "true"
        \/ /\ setup.op = "setup_all"
           /\ Len(setup.steps) >= 4
           /\ setup.steps[4] = <<"install_thunderstorm", "true">>)
        => find_plugin_jars(disk, platform) # {}

EventAt(event) == {i \in 1..Len(setup.events) : setup.events[i] = event}

\* C28: install_thunderstorm asks the release API before it looks for an
\* installed plugin: when the API gave no download URL it returns false without
\* prompting, removing or downloading anything, a plugin jar in the plugins
\* directory or not, and the already-installed prompt comes only after the API
\* request gave a download URL.
C28_ApiBeforeInstalledCheck ==
    setup.op = "install_thunderstorm" =>
        /\ EventAt("no_url") # {} =>
               /\ setup.ret = "false"
               /\ EventAt("prompt_jar") = {}
               /\ EventAt("remove_jars") = {}
               /\ EventAt("download_jar") = {}
        /\ \A p \in EventAt("prompt_jar") \cup EventAt("no_url") \cup EventAt("url") :
               \E a \in EventAt("api") : a < p
        /\ \A p \in EventAt("prompt_jar") : \E u \in EventAt("url") : u < p
        /\ setup.ret = "true" => EventAt("url") # {}

C28_Witness ==
    /\ setup.op = "install_thunderstorm"
    /\ setup.ret = "false"
    /\ setup.events = <<"api", "no_url">>
    /\ find_plugin_jars(disk, platform) # {}

\* C29: an installation made by the installer is found by the automator: when
\* run_fiji_setup returned true, the construction ThunderSTORMAutomator()
\* that follows it resolves an executable and does not raise, and when
\* run_fiji_setup installed, the executable it verified is one of the paths
\* the automator probes on that platform.
C29_InstallationIsFound ==
    (util.op = "run_fiji_setup" /\ util.ret = "true") =>
        /\ util.executable \in ExecutablePaths(platform) \ {CustomPath}
        /\ ctor.op = "construct" => ctor.ret = "ok"

\* Whether one of two key paths is a prefix of the other
OnPath(p, key) ==
    LET n == IF Len(p) < Len(key) THEN Len(p) ELSE Len(key)
    IN  SubSeq(p, 1, n) = SubSeq(key, 1, n)

\* C30: set is all-or-nothing: a set(k, v) that raises leaves the store
\* exactly as it was, no newly created mapping included; a set that completes
\* leaves v at k with a mapping at every proper prefix of k, and every key
\* path that is not on the path of k resolves to the same value as before.
C30_SetAllOrNothing ==
    [][last'.op = "set" =>
         IF last'.raised
         THEN store' = store
         ELSE /\ <<last'.key, last'.arg>> \in PathVals(store')
              /\ \A pv \in PathVals(store') :
                     (Len(pv[1]) < Len(last'.key) /\ OnPath(pv[1], last'.key)) => IsMap(pv[2])
              /\ {pv \in PathVals(store) : ~OnPath(pv[1], last'.key)}
                     = {pv \in PathVals(store') : ~OnPath(pv[1], last'.key)}]_vars

C30_Witness ==
    /\ last.op = "set"
    /\ last.raised
    /\ Len(last.key) = 3
    /\ NonMappingPrefix(store, last.key)
    /\ ~Resolves(store, last.key)

====
